---------------------------- MODULE Spec2Model ----------------------------
(***************************************************************************)
(* Password strength analyzer and wordlist generator                       *)
(* (src/pssw_analyzer.py, src/pssw_wordlist.py, src/pssw_config.py).       *)
(*                                                                         *)
(* A string is a sequence of Unicode code points, so that ord(), order by  *)
(* code point, case mapping and the character classes are the ones Python  *)
(* computes.  The characters the model uses are ASCII 32..126, the         *)
(* superscript digits (178, 179, 185), the Arabic-Indic digits             *)
(* (1632..1641) and the Greek small letters (945..969).                    *)
(*                                                                         *)
(* Numbers that Python holds as floats are held exactly: an entropy is a     *)
(* number of hundredths of a bit (the code rounds it to 2 decimals), the   *)
(* diversity ratio is the pair unique/length, and the score is rounded     *)
(* half-to-even from an exact fraction, as round() does.                   *)
(***************************************************************************)
EXTENDS Integers, Sequences, FiniteSets, TLC

VARIABLES
    pc,            \* where the call stands: "call" before it runs, then
                   \* "returned" or "raised"; for the wordlist, "generated"
                   \* and "counted"
    password,      \* the argument of analyze_password
    error,         \* the exception that ended the call, or "none"
    analysis,      \* the record analyze_password returned, or NoResult
    passwords,     \* two arguments of _calculate_entropy, the shorter first
    entropies,       \* what _calculate_entropy returned for each of the two
    request,       \* user_inputs, the list of raw inputs of generate_wordlist
    options,       \* its four flags
    size_limit,    \* config.MAX_WORDLIST_SIZE
    year_read,     \* datetime.now().year as generate_wordlist read it, or 0
    generated,     \* the list generate_wordlist returned
    stats,         \* what get_wordlist_statistics returned for that list
    position,      \* i of the loop of _check_repeated_characters
    repeated       \* the list that loop has built so far

vars == <<pc, password, error, analysis, passwords, entropies, request,
          options, size_limit, year_read, generated, stats, position,
          repeated>>

NoResult == [strength_label |-> "none"]

-----------------------------------------------------------------------------
(* Strings and characters *)

Max(a, b) == IF a >= b THEN a ELSE b
Min(a, b) == IF a <= b THEN a ELSE b

\* s[a..b] with Python's slice clipping (1-based, inclusive)
Slice(s, a, b) == SubSeq(s, a, Min(b, Len(s)))

Reverse(s) == [i \in 1..Len(s) |-> s[Len(s) + 1 - i]]

\* "pat in s"
Contains(s, pat) ==
    \E i \in 1..(Len(s) - Len(pat) + 1) : SubSeq(s, i, i + Len(pat) - 1) = pat

CharSet(s) == {s[i] : i \in 1..Len(s)}

\* s * n
Repeat(s, n) == [i \in 1..(n * Len(s)) |-> s[((i - 1) % Len(s)) + 1]]

\* regex [a-z], [A-Z]
IsAsciiLower(c) == c \in 97..122
IsAsciiUpper(c) == c \in 65..90

\* regex \d on a str pattern, and the characters int() accepts: category Nd
IsDecimal(c) == c \in 48..57 \/ c \in 1632..1641
DigitValue(c) == IF c \in 48..57 THEN c - 48 ELSE c - 1632

\* str.isdigit(): the decimal digits and the digit-like characters of
\* category No such as the superscripts 2, 3 and 1
IsDigitChar(c) == IsDecimal(c) \/ c \in {178, 179, 185}

\* regex [!@#$%^&*(),.?":{}|<>]
SpecialChars == {33, 34, 35, 36, 37, 38, 40, 41, 42, 44, 46, 58, 60, 62, 63, 64, 94, 123, 124, 125}
IsSpecial(c) == c \in SpecialChars

\* str.isalpha()
IsAlphaChar(c) == IsAsciiLower(c) \/ IsAsciiUpper(c) \/ c \in 945..969

\* str.isspace(), regex \s, and what str.strip() removes
IsSpaceChar(c) == c \in {9, 10, 11, 12, 13, 28, 29, 30, 31, 32}

LowerChar(c) == IF IsAsciiUpper(c) THEN c + 32 ELSE c
UpperChar(c) == IF IsAsciiLower(c) THEN c - 32 ELSE c
Lower(s) == [i \in 1..Len(s) |-> LowerChar(s[i])]
Upper(s) == [i \in 1..Len(s) |-> UpperChar(s[i])]

\* str.capitalize(): first character uppercased, the rest lowercased
Capitalize(s) ==
    [i \in 1..Len(s) |-> IF i = 1 THEN UpperChar(s[i]) ELSE LowerChar(s[i])]

\* the elements of list that satisfy Keep, in list order
SelectInOrder(list, Keep(_)) ==
    LET idx == {i \in 1..Len(list) : Keep(list[i])}
        Nth(k) == CHOOSE i \in idx : Cardinality({j \in idx : j <= i}) = k
    IN  [k \in 1..Cardinality(idx) |-> list[Nth(k)]]

\* round half to even of num/den, den > 0: Python's round()
RoundHalfEven(num, den) ==
    LET q == num \div den
        r == num % den
    IN  IF 2 * r > den \/ (2 * r = den /\ q % 2 = 1) THEN q + 1 ELSE q

-----------------------------------------------------------------------------
(* Config (src/pssw_config.py) *)

\* 'password' '123456' 'qwerty' 'abc123' 'letmein'
\* 'admin' 'welcome' 'monkey' 'dragon' 'master'
COMMON_PATTERNS ==
    << <<112, 97, 115, 115, 119, 111, 114, 100>>,
       <<49, 50, 51, 52, 53, 54>>,
       <<113, 119, 101, 114, 116, 121>>,
       <<97, 98, 99, 49, 50, 51>>,
       <<108, 101, 116, 109, 101, 105, 110>>,
       <<97, 100, 109, 105, 110>>,
       <<119, 101, 108, 99, 111, 109, 101>>,
       <<109, 111, 110, 107, 101, 121>>,
       <<100, 114, 97, 103, 111, 110>>,
       <<109, 97, 115, 116, 101, 114>> >>

\* {'a': ['@','4'], 'e': ['3'], 'i': ['1','!'], 'o': ['0'],
\*  's': ['$','5'], 't': ['7'], 'l': ['1'], 'g': ['9']} as the (char,
\* replacement) pairs in the order the two nested loops visit them
LEET_REPLACEMENTS ==
    << <<97, 64>>, <<97, 52>>, <<101, 51>>, <<105, 49>>, <<105, 33>>,
       <<111, 48>>, <<115, 36>>, <<115, 53>>, <<116, 55>>, <<108, 49>>,
       <<103, 57>> >>

MAX_WORDLIST_SIZE == 10000

-----------------------------------------------------------------------------
(* PasswordAnalyzer (src/pssw_analyzer.py) *)

\* an empty dict
EmptyDict == <<>>

_empty_analysis ==
    [ password |-> <<>>,
      length |-> 0,
      strength_score |-> 0,
      strength_label |-> "Invalid",
      strength_color |-> "secondary",
      entropy |-> 0,
      time_to_crack |-> "N/A",
      character_analysis |-> EmptyDict,
      pattern_analysis |-> EmptyDict,
      recommendations |-> <<"Please enter a password to analyze">> ]

CountIf(s, Test(_)) == Cardinality({i \in 1..Len(s) : Test(s[i])})

\* char_diversity is the fraction num / den: unique_chars / length, and 0
\* for the empty password
_analyze_characters(pw) ==
    LET has_lowercase == \E i \in 1..Len(pw) : IsAsciiLower(pw[i])
        has_uppercase == \E i \in 1..Len(pw) : IsAsciiUpper(pw[i])
        has_digits    == \E i \in 1..Len(pw) : IsDecimal(pw[i])
        has_special   == \E i \in 1..Len(pw) : IsSpecial(pw[i])
        B(b) == IF b THEN 1 ELSE 0
    IN  [ has_lowercase |-> has_lowercase,
          has_uppercase |-> has_uppercase,
          has_digits |-> has_digits,
          has_special |-> has_special,
          lowercase_count |-> CountIf(pw, IsAsciiLower),
          uppercase_count |-> CountIf(pw, IsAsciiUpper),
          digit_count |-> CountIf(pw, IsDecimal),
          special_count |-> CountIf(pw, IsSpecial),
          unique_chars |-> Cardinality(CharSet(pw)),
          char_diversity |-> IF pw # <<>>
                             THEN [num |-> Cardinality(CharSet(pw)), den |-> Len(pw)]
                             ELSE [num |-> 0, den |-> 1],
          character_types |->
              B(has_lowercase) + B(has_uppercase) + B(has_digits) + B(has_special) ]

_check_common_patterns(pw) ==
    LET password_lower == Lower(pw)
        Found(pattern) == Contains(password_lower, pattern)
    IN  SelectInOrder(COMMON_PATTERNS, Found)

\* 'qwerty' 'asdf' 'zxcv' '1234' '4567' '7890'
\* 'qwertyuiop' 'asdfghjkl' 'zxcvbnm'
keyboard_patterns ==
    << <<113, 119, 101, 114, 116, 121>>,
       <<97, 115, 100, 102>>,
       <<122, 120, 99, 118>>,
       <<49, 50, 51, 52>>,
       <<52, 53, 54, 55>>,
       <<55, 56, 57, 48>>,
       <<113, 119, 101, 114, 116, 121, 117, 105, 111, 112>>,
       <<97, 115, 100, 102, 103, 104, 106, 107, 108>>,
       <<122, 120, 99, 118, 98, 110, 109>> >>

_check_keyboard_patterns(pw) ==
    LET password_lower == Lower(pw)
        Found(pattern) == \/ Contains(password_lower, pattern)
                          \/ Contains(password_lower, Reverse(pattern))
    IN  SelectInOrder(keyboard_patterns, Found)

\* the while loop from position i (1-based) on
RECURSIVE RepeatedFrom(_, _)
RepeatedFrom(pw, i) ==
    IF i > Len(pw) - 2 THEN <<>>
    ELSE IF pw[i] = pw[i + 1] /\ pw[i + 1] = pw[i + 2]
         THEN <<Repeat(<<pw[i]>>, 3)>> \o RepeatedFrom(pw, i + 3)
         ELSE RepeatedFrom(pw, i + 1)

_check_repeated_characters(pw) == RepeatedFrom(pw, 1)

\* One pass of the numeric loop's condition at window i: "no", "yes", or
\* "ValueError" when int() is given a digit-like character that is not a
\* decimal digit.  The operands are evaluated left to right and the second
\* comparison only when the first one held.
NumericWindow(pw, i) ==
    IF ~(\A k \in i..(i + 2) : IsDigitChar(pw[k])) THEN "no"
    ELSE IF ~IsDecimal(pw[i + 1]) \/ ~IsDecimal(pw[i]) THEN "ValueError"
    ELSE IF DigitValue(pw[i + 1]) # DigitValue(pw[i]) + 1 THEN "no"
    ELSE IF ~IsDecimal(pw[i + 2]) THEN "ValueError"
    ELSE IF DigitValue(pw[i + 2]) = DigitValue(pw[i + 1]) + 1 THEN "yes"
    ELSE "no"

\* the window compared without .lower()
AlphabeticWindow_case_sensitive(pw, i) ==
    LET substr == SubSeq(pw, i, i + 2)
    IN  /\ \A k \in 1..3 : IsAlphaChar(substr[k])
        /\ substr[2] = substr[1] + 1
        /\ substr[3] = substr[2] + 1

AlphabeticWindow(pw, i) ==
    LET substr == Lower(SubSeq(pw, i, i + 2))
    IN  /\ \A k \in 1..3 : IsAlphaChar(substr[k])
        /\ substr[2] = substr[1] + 1
        /\ substr[3] = substr[2] + 1

\* the windows pw[i..i+2], in order
Windows(pw) == [i \in 1..(Len(pw) - 2) |-> i]

\* [error, found]: the list returned, or the exception raised.  The numeric
\* loop ends at the first window that raises, and the exception discards
\* what the windows before it appended.
_check_sequential_characters(pw) ==
    LET Numeric(i) == NumericWindow(pw, i) = "yes"
        Alphabetic(i) == AlphabeticWindow(pw, i)
        hits == SelectInOrder(Windows(pw), Numeric)
                \o SelectInOrder(Windows(pw), Alphabetic)
    IN  IF \E i \in 1..(Len(pw) - 2) : NumericWindow(pw, i) = "ValueError"
        THEN [error |-> "ValueError", found |-> <<>>]
        ELSE [error |-> "none",
              found |-> [k \in 1..Len(hits) |-> SubSeq(pw, hits[k], hits[k] + 2)]]

\* each entry <<replacement, char>> stands for the note 'replacement -> char'
_check_leet_speak(pw) ==
    LET Note(pair) == <<pair[2], pair[1]>>
        Found(pair) == Contains(pw, <<pair[2]>>)
        hits == SelectInOrder(LEET_REPLACEMENTS, Found)
    IN  [i \in 1..Len(hits) |-> Note(hits[i])]

\* 'password' 'admin' 'user' 'login' 'welcome'
\* 'secret' 'master' 'super' 'root' 'test'
common_words ==
    << <<112, 97, 115, 115, 119, 111, 114, 100>>,
       <<97, 100, 109, 105, 110>>,
       <<117, 115, 101, 114>>,
       <<108, 111, 103, 105, 110>>,
       <<119, 101, 108, 99, 111, 109, 101>>,
       <<115, 101, 99, 114, 101, 116>>,
       <<109, 97, 115, 116, 101, 114>>,
       <<115, 117, 112, 101, 114>>,
       <<114, 111, 111, 116>>,
       <<116, 101, 115, 116>> >>

_check_dictionary_words(pw) ==
    LET password_lower == Lower(pw)
        Found(word) == Contains(password_lower, word)
    IN  SelectInOrder(common_words, Found)

\* [error, value]: the six findings, or the exception of the sequential
\* check
_analyze_patterns(pw) ==
    LET seq == _check_sequential_characters(pw)
    IN  [ error |-> seq.error,
          value |->
            [ has_common_patterns |-> _check_common_patterns(pw),
              has_keyboard_patterns |-> _check_keyboard_patterns(pw),
              has_repeated_chars |-> _check_repeated_characters(pw),
              has_sequential_chars |-> seq.found,
              common_substitutions |-> _check_leet_speak(pw),
              contains_dictionary_words |-> _check_dictionary_words(pw) ] ]

\* log2(charset_size) in billionths of a bit as <<whole bits, the first
\* four decimals, the next five decimals>>, for the sizes a sum of
\* 26, 26, 10 and 32 can take
Log2Parts(charset_size) ==
    CASE charset_size = 10 -> <<3, 3219, 28095>>
      [] charset_size = 26 -> <<4, 7004, 39718>>
      [] charset_size = 32 -> <<5, 0, 0>>
      [] charset_size = 36 -> <<5, 1699, 25001>>
      [] charset_size = 42 -> <<5, 3923, 17423>>
      [] charset_size = 52 -> <<5, 7004, 39718>>
      [] charset_size = 58 -> <<5, 8579, 80995>>
      [] charset_size = 62 -> <<5, 9541, 96310>>
      [] charset_size = 68 -> <<6, 874, 62841>>
      [] charset_size = 84 -> <<6, 3923, 17423>>
      [] charset_size = 94 -> <<6, 5545, 88852>>

\* round(n * log2(charset_size), 2) in hundredths of a bit
EntropyOf(n, charset_size) ==
    LET t == Log2Parts(charset_size)
        x == n * t[2]
        y == n * t[3]
    IN  100 * n * t[1] + (x \div 100)
        + RoundHalfEven((x % 100) * 100000 + y, 10000000)

\* _calculate_entropy with len(set(password)) in the place of len(password)
_calculate_entropy_unique_chars(pw) ==
    IF pw = <<>> THEN 0
    ELSE LET charset_size ==
                 (IF \E i \in 1..Len(pw) : IsAsciiLower(pw[i]) THEN 26 ELSE 0)
               + (IF \E i \in 1..Len(pw) : IsAsciiUpper(pw[i]) THEN 26 ELSE 0)
               + (IF \E i \in 1..Len(pw) : IsDecimal(pw[i]) THEN 10 ELSE 0)
               + (IF \E i \in 1..Len(pw) : IsSpecial(pw[i]) THEN 32 ELSE 0)
         IN  IF charset_size > 0
             THEN EntropyOf(Cardinality(CharSet(pw)), charset_size) ELSE 0

\* in hundredths of a bit
_calculate_entropy(pw) ==
    IF pw = <<>> THEN 0
    ELSE LET charset_size ==
                 (IF \E i \in 1..Len(pw) : IsAsciiLower(pw[i]) THEN 26 ELSE 0)
               + (IF \E i \in 1..Len(pw) : IsAsciiUpper(pw[i]) THEN 26 ELSE 0)
               + (IF \E i \in 1..Len(pw) : IsDecimal(pw[i]) THEN 10 ELSE 0)
               + (IF \E i \in 1..Len(pw) : IsSpecial(pw[i]) THEN 32 ELSE 0)
         IN  IF charset_size > 0 THEN EntropyOf(Len(pw), charset_size) ELSE 0

\* The score before rounding and clamping, as the numerator of a fraction
\* over ScoreDenominator: char_types * 6.25 is 25 * char_types / 4 and
\* diversity_ratio * 15 is 15 * num / den.
ScoreDenominator(a) == 4 * a.character_analysis.char_diversity.den

\* ScoreNumerator with each penalty taken once per match found
ScoreNumerator_per_match(pw, a) ==
    LET length == Len(pw)
        length_points ==
            IF length >= 12 THEN 30
            ELSE IF length >= 8 THEN 20
            ELSE IF length >= 6 THEN 10
            ELSE IF length >= 4 THEN 5
            ELSE 0
        char_types == a.character_analysis.character_types
        diversity_ratio == a.character_analysis.char_diversity
        entropy_points ==
            IF a.entropy >= 6000 THEN 20
            ELSE IF a.entropy >= 4000 THEN 15
            ELSE IF a.entropy >= 2500 THEN 10
            ELSE IF a.entropy >= 1500 THEN 5
            ELSE 0
        patterns == a.pattern_analysis
        penalties ==
              10 * Len(patterns.has_common_patterns)
            + 5 * Len(patterns.has_keyboard_patterns)
            + 5 * Len(patterns.has_repeated_chars)
            + 5 * Len(patterns.has_sequential_chars)
    IN  4 * diversity_ratio.den * (length_points + entropy_points - penalties)
        + 25 * char_types * diversity_ratio.den
        + 60 * diversity_ratio.num

ScoreNumerator(pw, a) ==
    LET length == Len(pw)
        length_points ==
            IF length >= 12 THEN 30
            ELSE IF length >= 8 THEN 20
            ELSE IF length >= 6 THEN 10
            ELSE IF length >= 4 THEN 5
            ELSE 0
        char_types == a.character_analysis.character_types
        diversity_ratio == a.character_analysis.char_diversity
        entropy_points ==
            IF a.entropy >= 6000 THEN 20
            ELSE IF a.entropy >= 4000 THEN 15
            ELSE IF a.entropy >= 2500 THEN 10
            ELSE IF a.entropy >= 1500 THEN 5
            ELSE 0
        patterns == a.pattern_analysis
        penalties ==
              (IF patterns.has_common_patterns # <<>> THEN 10 ELSE 0)
            + (IF patterns.has_keyboard_patterns # <<>> THEN 5 ELSE 0)
            + (IF patterns.has_repeated_chars # <<>> THEN 5 ELSE 0)
            + (IF patterns.has_sequential_chars # <<>> THEN 5 ELSE 0)
    IN  4 * diversity_ratio.den * (length_points + entropy_points - penalties)
        + 25 * char_types * diversity_ratio.den
        + 60 * diversity_ratio.num

\* char_types * 25 in place of char_types * 6.25, and max(0, round(score))
_calculate_strength_score_weight25(pw, a) ==
    LET den == a.character_analysis.char_diversity.den
        weighted == ScoreNumerator(pw, a)
                    + 75 * a.character_analysis.character_types * den
    IN  Max(0, RoundHalfEven(weighted, ScoreDenominator(a)))

_calculate_strength_score(pw, a) ==
    Max(0, Min(100, RoundHalfEven(ScoreNumerator(pw, a), ScoreDenominator(a))))

_get_strength_label(score) ==
    IF score >= 80 THEN <<"Very Strong", "success">>
    ELSE IF score >= 60 THEN <<"Strong", "info">>
    ELSE IF score >= 40 THEN <<"Moderate", "warning">>
    ELSE IF score >= 20 THEN <<"Weak", "danger">>
    ELSE <<"Very Weak", "danger">>

\* The unit of the estimate, or "OverflowError".  seconds is
\* 2 ** entropy / 2e9: 2 ** entropy on a float raises OverflowError from
\* entropy 1024 on, and each bound on seconds is a bound on entropy (in
\* hundredths: 2 ** 30.90 / 2e9 is the first value >= 1, and so on).  The
\* count in front of the unit is not modelled.
_estimate_crack_time(entropy) ==
    IF entropy <= 0 THEN "Instantly"
    ELSE IF entropy >= 102400 THEN "OverflowError"
    ELSE IF entropy < 3090 THEN "Less than a second"
    ELSE IF entropy < 3681 THEN "seconds"
    ELSE IF entropy < 4272 THEN "minutes"
    ELSE IF entropy < 4730 THEN "hours"
    ELSE IF entropy < 5221 THEN "days"
    ELSE IF entropy < 5581 THEN "months"
    ELSE IF entropy < 7574 THEN "years"
    ELSE "Millions of years"

\* recommendations before the [:8] cut
AllRecommendations(a) ==
    LET char_analysis == a.character_analysis
        pattern_analysis == a.pattern_analysis
    IN
    (IF a.length < 8 THEN <<"Use at least 8 characters (12+ recommended)">>
     ELSE IF a.length < 12
          THEN <<"Consider using 12 or more characters for better security">>
          ELSE <<>>)
    \o (IF ~char_analysis.has_lowercase THEN <<"Add lowercase letters">> ELSE <<>>)
    \o (IF ~char_analysis.has_uppercase THEN <<"Add uppercase letters">> ELSE <<>>)
    \o (IF ~char_analysis.has_digits THEN <<"Add numbers">> ELSE <<>>)
    \o (IF ~char_analysis.has_special
        THEN <<"Add special characters (!@#$%^&*)">> ELSE <<>>)
    \o (IF pattern_analysis.has_common_patterns # <<>>
        THEN <<"Avoid common password patterns">> ELSE <<>>)
    \o (IF pattern_analysis.has_keyboard_patterns # <<>>
        THEN <<"Avoid keyboard patterns (qwerty, 123456, etc.)">> ELSE <<>>)
    \o (IF pattern_analysis.has_repeated_chars # <<>>
        THEN <<"Avoid repeated characters (aaa, 111)">> ELSE <<>>)
    \o (IF pattern_analysis.has_sequential_chars # <<>>
        THEN <<"Avoid sequential characters (abc, 123)">> ELSE <<>>)
    \o (IF pattern_analysis.contains_dictionary_words # <<>>
        THEN <<"Avoid common dictionary words">> ELSE <<>>)
    \o (IF 10 * char_analysis.char_diversity.num < 7 * char_analysis.char_diversity.den
        THEN <<"Use more unique characters">> ELSE <<>>)
    \o (IF a.strength_score < 60
        THEN <<"Consider using a passphrase instead of a password",
               "Use a password manager to generate strong passwords",
               "Enable two-factor authentication where possible">>
        ELSE <<>>)

\* without the cut recommendations[:8]
_generate_recommendations_uncut(a) == AllRecommendations(a)

_generate_recommendations(a) == Slice(AllRecommendations(a), 1, 8)

\* analyze_password after the guard on the empty password.
\* [error, analysis]: the record returned, or the exception that ended the
\* call.  The sequential check raises inside _analyze_patterns, before any
\* scoring; _estimate_crack_time raises after the score and the label.
\* The timestamp and the optional zxcvbn field are left out: nothing reads
\* them, and _zxcvbn_analysis catches every exception of the library.
FullAnalysis(pw) ==
    LET patterns == _analyze_patterns(pw)
        a1 == [ password |-> pw,
                length |-> Len(pw),
                character_analysis |-> _analyze_characters(pw),
                pattern_analysis |-> patterns.value,
                entropy |-> _calculate_entropy(pw) ]
        score == _calculate_strength_score(pw, a1)
        label == _get_strength_label(score)
        time_to_crack == _estimate_crack_time(a1.entropy)
        a2 == [ password |-> pw,
                length |-> Len(pw),
                strength_score |-> score,
                strength_label |-> label[1],
                strength_color |-> label[2],
                entropy |-> a1.entropy,
                time_to_crack |-> time_to_crack,
                character_analysis |-> a1.character_analysis,
                pattern_analysis |-> a1.pattern_analysis,
                recommendations |-> <<>> ]
    IN  IF patterns.error # "none"
        THEN [error |-> patterns.error, analysis |-> NoResult]
        ELSE IF time_to_crack = "OverflowError"
        THEN [error |-> "OverflowError", analysis |-> NoResult]
        ELSE [error |-> "none",
              analysis |->
                  [a2 EXCEPT !.recommendations = _generate_recommendations(a2)]]

\* without the guard on the empty password
analyze_password_unguarded(pw) == FullAnalysis(pw)

analyze_password(pw) ==
    IF pw = <<>> THEN [error |-> "none", analysis |-> _empty_analysis]
    ELSE FullAnalysis(pw)

-----------------------------------------------------------------------------
(* WordlistGenerator (src/pssw_wordlist.py) *)

SetMin(S) == CHOOSE x \in S : \A y \in S : x <= y
SetMax(S) == CHOOSE x \in S : \A y \in S : x >= y

\* str.strip()
Strip(s) ==
    LET keep == {i \in 1..Len(s) : ~IsSpaceChar(s[i])}
    IN  IF keep = {} THEN <<>> ELSE SubSeq(s, SetMin(keep), SetMax(keep))

\* str.isspace()
IsSpace(s) == s # <<>> /\ \A i \in 1..Len(s) : IsSpaceChar(s[i])

\* the characters regex [,;\s\n\t] matches
IsSeparator(c) == c \in {44, 59} \/ IsSpaceChar(c)

\* re.split(r'[,;\s\n\t]+', text) for a text that is not empty: the maximal
\* runs of characters between the separator runs, with an empty string in
\* front when the text starts with a separator and one at the end when it
\* ends with one
Split(text) ==
    LET starts == [i \in 1..Len(text) |-> i]
        IsStart(i) == ~IsSeparator(text[i]) /\ (i = 1 \/ IsSeparator(text[i - 1]))
        RunEnd(i) == SetMin({j \in i..Len(text) :
                                j = Len(text) \/ IsSeparator(text[j + 1])})
        first == SelectInOrder(starts, IsStart)
    IN  (IF IsSeparator(text[1]) THEN << <<>> >> ELSE <<>>)
        \o [k \in 1..Len(first) |-> SubSeq(text, first[k], RunEnd(first[k]))]
        \o (IF IsSeparator(text[Len(text)]) THEN << <<>> >> ELSE <<>>)

\* _clean_inputs splitting on commas and semicolons only
_clean_inputs_keep_spaces(user_inputs) ==
    IF user_inputs = <<>> THEN {}
    ELSE UNION {
           LET text == Strip(user_inputs[n])
               cuts == {0, Len(text) + 1} \cup {i \in 1..Len(text) : text[i] \in {44, 59}}
               pieces == { Strip(SubSeq(text, i + 1, j - 1)) : i, j \in cuts }
           IN  { piece \in pieces :
                   /\ Len(piece) >= 2
                   /\ \A i \in 1..Len(piece) : piece[i] \notin {44, 59} }
           : n \in 1..Len(user_inputs) }

\* _clean_inputs keeping the tokens of one character too
_clean_inputs_min_length_1(user_inputs) ==
    IF user_inputs = <<>> THEN {}
    ELSE UNION {
           LET input_text == user_inputs[n]
           IN  IF Strip(input_text) = <<>> THEN {}
               ELSE LET words == Split(Strip(input_text))
                    IN  { Strip(words[k]) : k \in
                            {k \in 1..Len(words) : Len(Strip(words[k])) >= 1} }
           : n \in 1..Len(user_inputs) }

\* list(set(all_words)): the seeds, as a set
_clean_inputs(user_inputs) ==
    IF user_inputs = <<>> THEN {}
    ELSE UNION {
           LET input_text == user_inputs[n]
           IN  IF Strip(input_text) = <<>> THEN {}
               ELSE LET words == Split(Strip(input_text))
                    IN  { Strip(words[k]) : k \in
                            {k \in 1..Len(words) : Len(Strip(words[k])) >= 2} }
           : n \in 1..Len(user_inputs) }

BaseForms(word) == {word, Lower(word), Upper(word), Capitalize(word)}

Vowels == {97, 101, 105, 111, 117, 65, 69, 73, 79, 85}
NotVowel(c) == c \notin Vowels

\* word.split(): the maximal runs of characters that are not whitespace
SplitWhitespace(word) ==
    LET starts == [i \in 1..Len(word) |-> i]
        IsStart(i) == ~IsSpaceChar(word[i]) /\ (i = 1 \/ IsSpaceChar(word[i - 1]))
        RunEnd(i) == SetMin({j \in i..Len(word) :
                                j = Len(word) \/ IsSpaceChar(word[j + 1])})
        first == SelectInOrder(starts, IsStart)
    IN  [k \in 1..Len(first) |-> SubSeq(word, first[k], RunEnd(first[k]))]

Abbreviation(word) ==
    LET parts == SplitWhitespace(word)
    IN  [k \in 1..Len(parts) |-> parts[k][1]]

VariationsOf(word) ==
    LET no_vowels == SelectInOrder(word, NotVowel)
    IN  {Reverse(word)}
        \cup (IF Len(word) >= 3
              THEN { <<word[1]>> \o Upper(Tail(word)),
                     <<UpperChar(word[1])>> \o Tail(word) }
              ELSE {})
        \cup (IF no_vowels # <<>> /\ no_vowels # word THEN {no_vowels} ELSE {})
        \cup (IF Len(word) <= 6 THEN {word \o word} ELSE {})
        \cup (IF 32 \in CharSet(word) /\ Len(Abbreviation(word)) >= 2
              THEN {Abbreviation(word), Upper(Abbreviation(word))}
              ELSE {})

_generate_variations(words) == UNION {VariationsOf(word) : word \in words}

\* str.replace(old, new) and str.replace(old, new, 1) for single characters
ReplaceAll(s, old, new) == [i \in 1..Len(s) |-> IF s[i] = old THEN new ELSE s[i]]

ReplaceFirst(s, old, new) ==
    IF old \in CharSet(s)
    THEN [s EXCEPT ![SetMin({i \in 1..Len(s) : s[i] = old})] = new]
    ELSE s

\* the first loop of _generate_leet_variations from the k-th (char,
\* replacement) pair on
RECURSIVE FullLeetFrom(_, _)
FullLeetFrom(leet_word, k) ==
    IF k > Len(LEET_REPLACEMENTS) THEN leet_word
    ELSE LET char == LEET_REPLACEMENTS[k][1]
             replacement == LEET_REPLACEMENTS[k][2]
         IN  FullLeetFrom(
                 ReplaceAll(ReplaceAll(leet_word, char, replacement),
                            UpperChar(char), replacement),
                 k + 1)

LeetOf(word) ==
    (IF FullLeetFrom(word, 1) # word THEN {FullLeetFrom(word, 1)} ELSE {})
    \cup { ReplaceFirst(word, LEET_REPLACEMENTS[k][1], LEET_REPLACEMENTS[k][2]) :
             k \in {k \in 1..Len(LEET_REPLACEMENTS) :
                       ReplaceFirst(word, LEET_REPLACEMENTS[k][1],
                                    LEET_REPLACEMENTS[k][2]) # word} }

_generate_leet_variations(words) == UNION {LeetOf(word) : word \in words}

\* str(n) for a year of four digits, and its last two characters
Str(n) == << 48 + (n \div 1000), 48 + ((n \div 100) % 10),
             48 + ((n \div 10) % 10), 48 + (n % 10) >>
LastTwo(s) == SubSeq(s, Len(s) - 1, Len(s))

\* '2023' '2024' '2025' '23' '24' '25'
\* '1990' '1995' '2000' '2010' '90' '95' '00' '10'
FixedYears ==
    << <<50, 48, 50, 51>>, <<50, 48, 50, 52>>, <<50, 48, 50, 53>>, <<50, 51>>,
       <<50, 52>>, <<50, 53>>, <<49, 57, 57, 48>>, <<49, 57, 57, 53>>,
       <<50, 48, 48, 48>>, <<50, 48, 49, 48>>, <<57, 48>>, <<57, 53>>,
       <<48, 48>>, <<49, 48>> >>

Years(current_year) ==
    << Str(current_year), Str(current_year - 1), Str(current_year + 1),
       LastTwo(Str(current_year)), LastTwo(Str(current_year - 1)) >>
    \o FixedYears

_add_year_combinations(words, current_year) ==
    LET years == Years(current_year)
    IN  UNION { { word \o years[k],
                  years[k] \o word,
                  word \o <<95>> \o years[k],
                  word \o <<45>> \o years[k] } :
                word \in words, k \in 1..Len(years) }

\* '1' '12' '123' '1234' '!' '!!' '?' '@' '#' '01' '001'
suffixes ==
    << <<49>>, <<49, 50>>, <<49, 50, 51>>, <<49, 50, 51, 52>>,
       <<33>>, <<33, 33>>, <<63>>, <<64>>,
       <<35>>, <<48, 49>>, <<48, 48, 49>> >>

\* '1' '12' '@' '#'
prefixes ==
    << <<49>>, <<49, 50>>, <<64>>, <<35>> >>

_add_common_combinations(words) ==
    UNION { {word \o suffixes[k] : k \in 1..Len(suffixes)}
            \cup {prefixes[k] \o word : k \in 1..Len(prefixes)} :
            word \in words }

\* 'password' 'admin' 'user' 'login' 'secure'
common_additions ==
    << <<112, 97, 115, 115, 119, 111, 114, 100>>, <<97, 100, 109, 105, 110>>, <<117, 115, 101, 114>>, <<108, 111, 103, 105, 110>>,
       <<115, 101, 99, 117, 114, 101>> >>

\* '123' '456' '789' '!@#' '***' appended, '***' in front, and the
\* capitalized word with '1' and with '!'
PatternsOf(word) ==
    { word \o <<49, 50, 51>>,
      word \o <<52, 53, 54>>,
      word \o <<55, 56, 57>>,
      word \o <<33, 64, 35>>,
      word \o <<42, 42, 42>>,
      <<42, 42, 42>> \o word,
      Capitalize(word) \o <<49>>,
      Capitalize(word) \o <<33>> }
    \cup UNION { {word \o common_additions[k], common_additions[k] \o word} :
                 k \in {k \in 1..Len(common_additions) :
                           Lower(word) # common_additions[k]} }

_add_common_patterns(words) == UNION {PatternsOf(word) : word \in words}

\* the filter without the upper length limit
Filtered_no_upper_limit(wordlist) ==
    { word \in wordlist :
        /\ 2 <= Len(word)
        /\ Strip(word) = word
        /\ ~IsSpace(word) }

\* the words the loop of _filter_wordlist keeps
Filtered(wordlist) ==
    { word \in wordlist :
        /\ 2 <= Len(word) /\ Len(word) <= 50
        /\ Strip(word) = word
        /\ ~IsSpace(word) }

\* the sets of k of the words
RECURSIVE KSubsets(_, _)
KSubsets(words, k) ==
    IF k = 0 THEN {{}}
    ELSE UNION { {kept \cup {w} : w \in words \ kept} : kept \in KSubsets(words, k - 1) }

\* _filter_wordlist without the slice [:MAX_WORDLIST_SIZE]
_filter_wordlist_unlimited(wordlist, max_wordlist_size) == {Filtered(wordlist)}

\* The lists _filter_wordlist can return, each as a set: list(set(filtered))
\* is in no particular order, so when it is longer than the maximum the slice
\* [:max] keeps any max of its words.
_filter_wordlist(wordlist, max_wordlist_size) ==
    LET unique_filtered == Filtered(wordlist)
    IN  IF Cardinality(unique_filtered) > max_wordlist_size
        THEN KSubsets(unique_filtered, max_wordlist_size)
        ELSE {unique_filtered}

\* the set `wordlist` of generate_wordlist after each stage, for seeds that
\* are not empty
AfterBase(cleaned_inputs) == UNION {BaseForms(word) : word \in cleaned_inputs}

\* the variations added whatever include_variations says
AfterVariations_unconditional(cleaned_inputs, opt) ==
    AfterBase(cleaned_inputs) \cup _generate_variations(cleaned_inputs)

AfterVariations(cleaned_inputs, opt) ==
    AfterBase(cleaned_inputs)
    \cup (IF opt.include_variations THEN _generate_variations(cleaned_inputs) ELSE {})

AfterLeet(cleaned_inputs, opt) ==
    LET snapshot == AfterVariations(cleaned_inputs, opt)
    IN  snapshot \cup (IF opt.include_leet THEN _generate_leet_variations(snapshot) ELSE {})

AfterYears(cleaned_inputs, opt, current_year) ==
    AfterLeet(cleaned_inputs, opt)
    \cup (IF opt.include_years
          THEN _add_year_combinations(cleaned_inputs, current_year) ELSE {})

AfterCombinations(cleaned_inputs, opt, current_year) ==
    AfterYears(cleaned_inputs, opt, current_year)
    \cup _add_common_combinations(cleaned_inputs)

\* the leet stage run last, over the words of every other stage
AfterPatterns_leet_last(cleaned_inputs, opt, current_year) ==
    LET others == AfterVariations(cleaned_inputs, opt)
                  \cup (IF opt.include_years
                        THEN _add_year_combinations(cleaned_inputs, current_year)
                        ELSE {})
                  \cup _add_common_combinations(cleaned_inputs)
                  \cup (IF opt.include_common
                        THEN _add_common_patterns(cleaned_inputs) ELSE {})
    IN  others \cup (IF opt.include_leet THEN _generate_leet_variations(others) ELSE {})

AfterPatterns(cleaned_inputs, opt, current_year) ==
    AfterCombinations(cleaned_inputs, opt, current_year)
    \cup (IF opt.include_common THEN _add_common_patterns(cleaned_inputs) ELSE {})

\* The length of the longest prefix the words share.
CommonPrefixLen(words) ==
    LET shortest == SetMin({Len(w) : w \in words})
        first == CHOOSE w \in words : TRUE
        Agree(n) == \A w \in words : \A i \in 1..n : w[i] = first[i]
    IN  SetMax({n \in 0..shortest : Agree(n)})

\* sorted(words): ascending by code point, a prefix before its extensions.
\* The empty word first; words sharing a prefix are ordered by what follows
\* it; otherwise the words with the least first character come first.
RECURSIVE Sorted(_)
Sorted(words) ==
    IF words = {} THEN <<>>
    ELSE IF <<>> \in words THEN << <<>> >> \o Sorted(words \ {<<>>})
    ELSE LET n == CommonPrefixLen(words)
             w0 == CHOOSE w \in words : TRUE
             c == SetMin({w[1] : w \in words})
             bucket == {w \in words : w[1] = c}
         IN  IF n > 0
             THEN LET rest == Sorted({Slice(w, n + 1, Len(w)) : w \in words})
                      prefix == Slice(w0, 1, n)
                  IN  [i \in 1..Len(rest) |-> prefix \o rest[i]]
             ELSE Sorted(bucket) \o Sorted(words \ bucket)

\* The lists generate_wordlist can return: one, unless the filter cut the
\* words down to the maximum.  current_year is datetime.now().year, read
\* only when include_years is set.
generate_wordlist(user_inputs, opt, current_year, max_wordlist_size) ==
    LET cleaned_inputs == _clean_inputs(user_inputs)
    IN  IF cleaned_inputs = {} THEN {<<>>}
        ELSE { Sorted(final_wordlist) :
               final_wordlist \in
                   _filter_wordlist(AfterPatterns(cleaned_inputs, opt, current_year),
                                    max_wordlist_size) }

\* str.isupper() and str.islower() of one character
IsUpperChar(c) == IsAsciiUpper(c)
IsLowerChar(c) == IsAsciiLower(c) \/ c \in 945..969

\* the characters of '!@#$%^&*()'
StatSymbols == {33, 64, 35, 36, 37, 94, 38, 42, 40, 41}

\* sum(len(word) for word in wordlist), added up length by length
RECURSIVE SumLengths(_, _)
SumLengths(wordlist, lengths) ==
    IF lengths = {} THEN 0
    ELSE LET n == SetMin(lengths)
         IN  n * Cardinality({i \in 1..Len(wordlist) : Len(wordlist[i]) = n})
             + SumLengths(wordlist, lengths \ {n})

\* get_wordlist_statistics counting the unique words without regard to case
get_wordlist_statistics_caseless(wordlist) ==
    IF wordlist = <<>> THEN EmptyDict
    ELSE
    [ total_words |-> Len(wordlist),
      unique_words |-> Cardinality({Lower(wordlist[i]) : i \in 1..Len(wordlist)}) ]

\* average_length is the fraction num / den before round(..., 2)
get_wordlist_statistics(wordlist) ==
    IF wordlist = <<>> THEN EmptyDict
    ELSE
    LET lengths == {Len(wordlist[i]) : i \in 1..Len(wordlist)}
        Count(Test(_)) ==
            Cardinality({i \in 1..Len(wordlist) :
                            \E k \in 1..Len(wordlist[i]) : Test(wordlist[i][k])})
        IsSymbol(c) == c \in StatSymbols
    IN  [ total_words |-> Len(wordlist),
          unique_words |-> Cardinality({wordlist[i] : i \in 1..Len(wordlist)}),
          average_length |-> [num |-> SumLengths(wordlist, lengths),
                              den |-> Len(wordlist)],
          min_length |-> SetMin(lengths),
          max_length |-> SetMax(lengths),
          length_distribution |->
              [n \in lengths |->
                  Cardinality({i \in 1..Len(wordlist) : Len(wordlist[i]) = n})],
          has_numbers |-> Count(IsDigitChar),
          has_symbols |-> Count(IsSymbol),
          has_uppercase |-> Count(IsUpperChar),
          has_lowercase |-> Count(IsLowerChar) ]

-----------------------------------------------------------------------------
(* The passwords analysed *)

MaxLen == 4
MaxParts == 2
LongRepeat == 160

\* a b c B 1 2 3 4 ! and superscript two
Alphabet == {97, 98, 99, 66, 49, 50, 51, 52, 33, 178}

ShortPasswords == UNION {[1..n -> Alphabet] : n \in 0..MaxLen}

\* 'password' 'abc123' 'qwerty' '123456' '4321' 'aaa'
\* 'Tr0ub4dor&3' '١٢٣' 'αβγ' ' ' 'Admin'
Fragments ==
    { <<112, 97, 115, 115, 119, 111, 114, 100>>,
      <<97, 98, 99, 49, 50, 51>>,
      <<113, 119, 101, 114, 116, 121>>,
      <<49, 50, 51, 52, 53, 54>>,
      <<52, 51, 50, 49>>,
      <<97, 97, 97>>,
      <<84, 114, 48, 117, 98, 52, 100, 111, 114, 38, 51>>,
      <<1633, 1634, 1635>>,
      <<945, 946, 947>>,
      <<32>>,
      <<65, 100, 109, 105, 110>> }

\* the concatenations of 1..n fragments
RECURSIVE Phrases(_)
Phrases(n) ==
    IF n = 0 THEN {<<>>}
    ELSE LET shorter == Phrases(n - 1)
         IN  shorter \cup {p \o f : p \in shorter, f \in Fragments}

\* LongRepeat times 'a', alone and after 'B1!'
LongPasswords ==
    { prefix \o Repeat(<<97>>, LongRepeat) : prefix \in {<<>>, <<66, 49, 33>>} }

Passwords == ShortPasswords \cup Phrases(MaxParts) \cup LongPasswords

-----------------------------------------------------------------------------
(* The pairs of passwords whose entropies are compared *)

MaxPairLen == 3

\* a B 1 ! and the space, which belongs to no class
EntropyAlphabet == {97, 66, 49, 33, 32}

\* 'a' x LongRepeat with and without a last 'a', '١', 'a١', '1١'
EntropyExtras ==
    { Repeat(<<97>>, LongRepeat - 1), Repeat(<<97>>, LongRepeat),
      <<1633>>, <<97, 1633>>, <<49, 1633>> }

EntropyPasswords ==
    UNION {[1..n -> EntropyAlphabet] : n \in 0..MaxPairLen} \cup EntropyExtras

PasswordPairs ==
    {pair \in EntropyPasswords \X EntropyPasswords : Len(pair[1]) <= Len(pair[2])}

-----------------------------------------------------------------------------
(* The requests made of generate_wordlist *)

MaxRawLen == 3
LongSeed == 47
ScaledMaxSize == 2

\* a E 1 , and the space
RawAlphabet == {97, 69, 49, 44, 32}

\* one raw input of up to MaxRawLen characters
ShortRequests == { <<raw>> : raw \in UNION {[1..n -> RawAlphabet] : n \in 0..MaxRawLen} }

\* []  ['']  ['  ']  ['a']  ['cat']  ['ab']  ['a b']  ['a, b;c']  ['Bob
\* eve']  ['leet', 'Test']  ['cat', 'cat']  ['password']  [',ab;']  ['
\* cat\tdog\n']  ['Tiger9', '  ']  ['aB']  ['sT1ll go']  ['abcdefg']
\* ['ab,,cd']  ['a;', ';b', 'cde']
CuratedRequests ==
    {
      <<>>,
      <<<<>>>>,
      <<<<32, 32>>>>,
      <<<<97>>>>,
      <<<<99, 97, 116>>>>,
      <<<<97, 98>>>>,
      <<<<97, 32, 98>>>>,
      <<<<97, 44, 32, 98, 59, 99>>>>,
      <<<<66, 111, 98, 32, 101, 118, 101>>>>,
      <<<<108, 101, 101, 116>>, <<84, 101, 115, 116>>>>,
      <<<<99, 97, 116>>, <<99, 97, 116>>>>,
      <<<<112, 97, 115, 115, 119, 111, 114, 100>>>>,
      <<<<44, 97, 98, 59>>>>,
      <<<<32, 99, 97, 116, 9, 100, 111, 103, 10>>>>,
      <<<<84, 105, 103, 101, 114, 57>>, <<32, 32>>>>,
      <<<<97, 66>>>>,
      <<<<115, 84, 49, 108, 108, 32, 103, 111>>>>,
      <<<<97, 98, 99, 100, 101, 102, 103>>>>,
      <<<<97, 98, 44, 44, 99, 100>>>>,
      <<<<97, 59>>, <<59, 98>>, <<99, 100, 101>>>> }

\* one seed of LongSeed times 'x', of 3 characters more (50 when LongSeed is
\* 47) and of 4 more, and 'ab' before the first
LongRequests ==
    { << Repeat(<<120>>, LongSeed) >>,
      << Repeat(<<120>>, LongSeed + 3) >>,
      << Repeat(<<120>>, LongSeed + 4) >>,
      << <<97, 98>>, Repeat(<<120>>, LongSeed) >> }

Requests == ShortRequests \cup CuratedRequests \cup LongRequests

Options ==
    [include_years : BOOLEAN, include_leet : BOOLEAN,
     include_common : BOOLEAN, include_variations : BOOLEAN]

\* The limit of the configuration, 10 000 words, is more than any request of
\* Requests fills.  So that the slice of _filter_wordlist acts, the requests
\* of ScaledRequests run under the limit ScaledMaxSize as well, with the
\* stages off that would give them more words than can be chosen from.
\* [] ['a'] ['ab'] ['cat']
ScaledRequests == { <<>>, << <<97>> >>, << <<97, 98>> >>, << <<99, 97, 116>> >> }

MaxSizes(user_inputs, opt) ==
    IF /\ user_inputs \in ScaledRequests
       /\ ~opt.include_years /\ ~opt.include_leet /\ ~opt.include_common
    THEN {MAX_WORDLIST_SIZE, ScaledMaxSize}
    ELSE {MAX_WORDLIST_SIZE}

\* the years datetime.now().year gives
Clock == {2024, 2026}

-----------------------------------------------------------------------------
(* The values of the variables a specification does not use *)

NoOptions ==
    [include_years |-> FALSE, include_leet |-> FALSE,
     include_common |-> FALSE, include_variations |-> FALSE]

NoAnalysis == password = <<>> /\ error = "none" /\ analysis = NoResult

NoEntropy == passwords = <<>> /\ entropies = <<>>

NoWordlist ==
    /\ request = <<>>
    /\ options = NoOptions
    /\ size_limit = MAX_WORDLIST_SIZE
    /\ year_read = 0
    /\ generated = <<>>
    /\ stats = EmptyDict

NoScan == position = 0 /\ repeated = <<>>

-----------------------------------------------------------------------------
(* analyze_password as a state machine: one call per behaviour *)

Init ==
    /\ password \in Passwords
    /\ pc = "call"
    /\ error = "none"
    /\ analysis = NoResult
    /\ NoEntropy
    /\ NoWordlist
    /\ NoScan

AnalyzePassword ==
    /\ pc = "call"
    /\ LET r == analyze_password(password)
       IN  /\ pc' = IF r.error = "none" THEN "returned" ELSE "raised"
           /\ error' = r.error
           /\ analysis' = r.analysis
    /\ UNCHANGED <<password, passwords, entropies, request, options,
                   size_limit, year_read, generated, stats,
                   position, repeated>>

Next == AnalyzePassword

Spec == Init /\ [][Next]_vars

-----------------------------------------------------------------------------
(* _calculate_entropy applied to two passwords *)

InitEntropy ==
    /\ passwords \in PasswordPairs
    /\ pc = "call"
    /\ entropies = <<>>
    /\ NoAnalysis
    /\ NoWordlist
    /\ NoScan

CalculateEntropy ==
    /\ pc = "call"
    /\ entropies' = <<_calculate_entropy(passwords[1]), _calculate_entropy(passwords[2])>>
    /\ pc' = "returned"
    /\ UNCHANGED <<password, error, analysis, passwords, request, options,
                   size_limit, year_read, generated, stats,
                   position, repeated>>

NextEntropy == CalculateEntropy

SpecEntropy == InitEntropy /\ [][NextEntropy]_vars

-----------------------------------------------------------------------------
(* generate_wordlist, then get_wordlist_statistics on the list it returned *)

InitWordlist ==
    /\ request \in Requests
    /\ options \in Options
    /\ size_limit \in MaxSizes(request, options)
    /\ pc = "call"
    /\ year_read = 0
    /\ generated = <<>>
    /\ stats = EmptyDict
    /\ NoAnalysis
    /\ NoEntropy
    /\ NoScan

\* datetime.now() is read by _add_year_combinations alone
GenerateWordlist ==
    /\ pc = "call"
    /\ \E year \in IF options.include_years /\ _clean_inputs(request) # {}
                   THEN Clock ELSE {0} :
          /\ year_read' = year
          /\ generated' \in generate_wordlist(request, options, year,
                                             size_limit)
    /\ pc' = "generated"
    /\ UNCHANGED <<password, error, analysis, passwords, entropies, request,
                   options, size_limit, stats,
                   position, repeated>>

GetWordlistStatistics ==
    /\ pc = "generated"
    /\ stats' = get_wordlist_statistics(generated)
    /\ pc' = "counted"
    /\ UNCHANGED <<password, error, analysis, passwords, entropies, request,
                   options, size_limit, year_read, generated,
                   position, repeated>>

NextWordlist == GenerateWordlist \/ GetWordlistStatistics

SpecWordlist == InitWordlist /\ [][NextWordlist]_vars

-----------------------------------------------------------------------------
(* The loop of _check_repeated_characters, one iteration per step *)

MaxScanLen == 7

\* a b 1
ScanAlphabet == {97, 98, 49}

ScanPasswords ==
    UNION {[1..n -> ScanAlphabet] : n \in 0..MaxScanLen} \cup LongPasswords

\* password[i] == password[i+1] == password[i+2], i counted from 0
TripleAt(pw, i) == pw[i + 1] = pw[i + 2] /\ pw[i + 2] = pw[i + 3]

\* i += 1 whatever was found
NextPosition_by_one(pw, i) == i + 1

\* i += 3 after a triple, i += 1 otherwise
NextPosition(pw, i) == IF TripleAt(pw, i) THEN i + 3 ELSE i + 1

InitScan ==
    /\ password \in ScanPasswords
    /\ pc = "scan"
    /\ position = 0
    /\ repeated = <<>>
    /\ error = "none"
    /\ analysis = NoResult
    /\ NoEntropy
    /\ NoWordlist

\* one iteration of the while loop
ScanStep ==
    /\ pc = "scan"
    /\ position < Len(password) - 2
    /\ repeated' = IF TripleAt(password, position)
                   THEN Append(repeated, Repeat(<<password[position + 1]>>, 3))
                   ELSE repeated
    /\ position' = NextPosition(password, position)
    /\ UNCHANGED <<pc, password, error, analysis, passwords, entropies,
                   request, options, size_limit, year_read, generated, stats>>

\* the loop condition fails: return repeated
ScanReturn ==
    /\ pc = "scan"
    /\ ~(position < Len(password) - 2)
    /\ pc' = "returned"
    /\ UNCHANGED <<password, error, analysis, passwords, entropies, request,
                   options, size_limit, year_read, generated, stats,
                   position, repeated>>

NextScan == ScanStep \/ ScanReturn

\* the interpreter runs the loop on: an enabled step is taken
SpecScan == InitScan /\ [][NextScan]_vars /\ WF_vars(NextScan)

-----------------------------------------------------------------------------
(* Properties of analyze_password *)

Returned == pc = "returned"

\* C1: whenever analyze_password returns, for the empty password or any
\* other, strength_score is an integer between 0 and 100.
C1_ScoreInRange == Returned => analysis.strength_score \in 0..100

\* a password that earned points and lost some to every kind of penalty short
\* of the repeated one was scored
C1_Witness ==
    /\ Returned
    /\ password # <<>>
    /\ analysis.pattern_analysis.has_common_patterns # <<>>
    /\ analysis.pattern_analysis.has_keyboard_patterns # <<>>
    /\ analysis.pattern_analysis.has_sequential_chars # <<>>
    /\ analysis.strength_score \in 1..99

\* C2: analyze_password never raises: no call ends in an exception.
C2_NeverRaises == pc # "raised"

\* C3: the empty password gets the fixed record (label "Invalid", score 0,
\* one recommendation, nothing profiled, detected or scored) and never an
\* error; no other password gets the label "Invalid".
C3_EmptyIsInvalid ==
    /\ (pc # "call" /\ password = <<>>) =>
          /\ Returned
          /\ analysis.strength_label = "Invalid"
          /\ analysis.strength_score = 0
          /\ Len(analysis.recommendations) = 1
          /\ analysis.character_analysis = EmptyDict
          /\ analysis.pattern_analysis = EmptyDict
          /\ analysis.entropy = 0
          /\ analysis.time_to_crack = "N/A"
    /\ (Returned /\ password # <<>>) => analysis.strength_label # "Invalid"

C3_Witness == Returned /\ password = <<>> /\ analysis.strength_label = "Invalid"

\* what C10 calls three digits each 1 greater than the one before, and three
\* letters each 1 code point after the one before, case ignored
AscendingDigits(w) ==
    /\ \A k \in 1..3 : IsDecimal(w[k])
    /\ DigitValue(w[2]) = DigitValue(w[1]) + 1
    /\ DigitValue(w[3]) = DigitValue(w[2]) + 1

AscendingLetters(w) ==
    /\ \A k \in 1..3 : IsAlphaChar(w[k])
    /\ LowerChar(w[2]) = LowerChar(w[1]) + 1
    /\ LowerChar(w[3]) = LowerChar(w[2]) + 1

\* windows such as '111' and 'aaa', and such as '321' and 'cba'
StepZero(w) == w[1] = w[2] /\ w[2] = w[3]

Descending(w) ==
    \/ /\ \A k \in 1..3 : IsDecimal(w[k])
       /\ DigitValue(w[2]) = DigitValue(w[1]) - 1
       /\ DigitValue(w[3]) = DigitValue(w[2]) - 1
    \/ /\ \A k \in 1..3 : IsAlphaChar(w[k])
       /\ LowerChar(w[2]) = LowerChar(w[1]) - 1
       /\ LowerChar(w[3]) = LowerChar(w[2]) - 1

SequentialWindows(pw) ==
    {i \in 1..(Len(pw) - 2) :
        AscendingDigits(SubSeq(pw, i, i + 2)) \/ AscendingLetters(SubSeq(pw, i, i + 2))}

\* C10: in the record returned for a password, the sequential findings hold a
\* 3-character window exactly when it is three ascending digits or three
\* ascending letters, once per position where such a window starts; step 0
\* and descending windows are never among them.
C10_SequentialExact ==
    (Returned /\ password # <<>>) =>
        LET found == analysis.pattern_analysis.has_sequential_chars
        IN  /\ Len(found) = Cardinality(SequentialWindows(password))
            /\ \A i \in 1..(Len(password) - 2) :
                   (i \in SequentialWindows(password))
                   <=> (\E k \in 1..Len(found) : found[k] = SubSeq(password, i, i + 2))
            /\ \A k \in 1..Len(found) : ~StepZero(found[k]) /\ ~Descending(found[k])

\* two overlapping windows of one 4-character password were both recorded
C10_Witness ==
    /\ Returned
    /\ Len(password) = 4
    /\ Len(analysis.pattern_analysis.has_sequential_chars) = 2
    /\ analysis.pattern_analysis.has_sequential_chars[1] = SubSeq(password, 1, 3)
    /\ analysis.pattern_analysis.has_sequential_chars[2] = SubSeq(password, 2, 4)

-----------------------------------------------------------------------------
(* Properties of _calculate_entropy *)

\* which of lowercase, uppercase, digit and special a password has
ClassesPresent(pw) ==
    << \E i \in 1..Len(pw) : IsAsciiLower(pw[i]),
       \E i \in 1..Len(pw) : IsAsciiUpper(pw[i]),
       \E i \in 1..Len(pw) : IsDecimal(pw[i]),
       \E i \in 1..Len(pw) : IsSpecial(pw[i]) >>

NoClass == <<FALSE, FALSE, FALSE, FALSE>>

\* C9: of two passwords with the same classes present, the one that is not
\* the shorter has an entropy that is not the smaller; a password with no
\* class present has entropy 0.
C9_EntropyMonotone ==
    pc = "returned" =>
        /\ (ClassesPresent(passwords[1]) = ClassesPresent(passwords[2])
            /\ Len(passwords[1]) <= Len(passwords[2]))
           => entropies[1] <= entropies[2]
        /\ \A k \in 1..2 :
               ClassesPresent(passwords[k]) = NoClass => entropies[k] = 0

\* two passwords with the same two classes or more, one longer, the longer
\* with more entropy
C9_Witness ==
    /\ pc = "returned"
    /\ ClassesPresent(passwords[1]) = ClassesPresent(passwords[2])
    /\ Cardinality({k \in 1..4 : ClassesPresent(passwords[1])[k]}) >= 2
    /\ Len(passwords[1]) < Len(passwords[2])
    /\ 0 < entropies[1] /\ entropies[1] < entropies[2]

-----------------------------------------------------------------------------
(* Properties of generate_wordlist and get_wordlist_statistics *)

\* v < w for two strings: order by code point, a prefix before its extensions
LexLess(v, w) ==
    \/ Len(v) < Len(w) /\ SubSeq(w, 1, Len(v)) = v
    \/ \E i \in 1..Min(Len(v), Len(w)) :
          /\ SubSeq(v, 1, i - 1) = SubSeq(w, 1, i - 1)
          /\ v[i] < w[i]

Generated == pc \in {"generated", "counted"}

GeneratedWords == {generated[i] : i \in 1..Len(generated)}

StrictlyAscending == \A i \in 1..(Len(generated) - 1) : LexLess(generated[i], generated[i + 1])

\* every word the stages produced for the request, before the filter
Unfiltered == AfterPatterns(_clean_inputs(request), options, year_read)

AllOptions ==
    [include_years |-> TRUE, include_leet |-> TRUE,
     include_common |-> TRUE, include_variations |-> TRUE]

\* C4: every word of the list generate_wordlist returns has between 2 and 50
\* characters, starts and ends with a character that is not whitespace, and
\* is not all whitespace, whatever the inputs and the flags.
C4_WordsWellFormed ==
    \A i \in 1..Len(generated) :
        LET word == generated[i]
        IN  /\ 2 <= Len(word) /\ Len(word) <= 50
            /\ ~IsSpaceChar(word[1]) /\ ~IsSpaceChar(word[Len(word)])
            /\ \E k \in 1..Len(word) : ~IsSpaceChar(word[k])

\* with every stage on, the stages produced a word of more than 50 characters
\* and one of fewer than 2, and words were returned
C4_Witness ==
    /\ Generated
    /\ options = AllOptions
    /\ generated # <<>>
    /\ \E word \in Unfiltered : Len(word) > 50
    /\ \E word \in Unfiltered : Len(word) < 2

\* C5: the list generate_wordlist returns is strictly ascending by code
\* point, so no word occurs twice, and holds at most as many words as the
\* configured maximum, itself at most MAX_WORDLIST_SIZE; when more words than
\* that pass the filter it holds exactly the maximum, all of them words that
\* passed the filter.
C5_SortedAndLimited ==
    Generated =>
        /\ StrictlyAscending
        /\ Len(generated) <= size_limit
        /\ size_limit <= MAX_WORDLIST_SIZE
        /\ Cardinality(Filtered(Unfiltered)) > size_limit
           => /\ Len(generated) = size_limit
              /\ GeneratedWords \subseteq Filtered(Unfiltered)

\* more words passed the filter than the maximum allows, and as many as the
\* maximum, at least two, were returned
C5_Witness ==
    /\ Generated
    /\ Cardinality(Filtered(Unfiltered)) > size_limit
    /\ Len(generated) = size_limit
    /\ Len(generated) >= 2

\* what C6 calls cleaning that yields no seed: no raw input, or every raw
\* input blank or made of tokens shorter than 2 characters
NoSeed(raw_inputs) ==
    \A n \in 1..Len(raw_inputs) :
        \/ Strip(raw_inputs[n]) = <<>>
        \/ LET tokens == Split(Strip(raw_inputs[n]))
           IN  \A k \in 1..Len(tokens) : Len(tokens[k]) < 2

\* C6: when cleaning the inputs yields no seed, generate_wordlist returns the
\* empty list whatever the flags.
C6_NoSeedNoWords == (Generated /\ NoSeed(request)) => generated = <<>>

\* an input that is not blank and has only tokens of one character gave the
\* empty list with every stage on
C6_Witness ==
    /\ Generated
    /\ options = AllOptions
    /\ \E n \in 1..Len(request) : Strip(request[n]) # <<>>
    /\ NoSeed(request)
    /\ generated = <<>>

\* the base forms of the seeds and their fixed-affix combinations
BaseAndAffix(seeds) ==
    UNION { {seed, Lower(seed), Upper(seed), Capitalize(seed)}
            \cup {seed \o suffixes[k] : k \in 1..11}
            \cup {prefixes[k] \o seed : k \in 1..4} :
            seed \in seeds }

\* C7 as stated: with the four flags false the list is exactly the base forms
\* and affix combinations that pass the filter, in ascending order.
C7_ExactlyBaseAndAffix ==
    (Generated /\ options = NoOptions) =>
        /\ Len(suffixes) = 11 /\ Len(prefixes) = 4
        /\ StrictlyAscending
        /\ GeneratedWords = Filtered(BaseAndAffix(_clean_inputs(request)))

\* C7: with the four flags false the list is ascending and holds only base
\* forms and affix combinations that pass the filter: all of them when they
\* are no more than the configured maximum, and otherwise as many of them as
\* the maximum.
C7_BaseAndAffixUpToLimit ==
    (Generated /\ options = NoOptions) =>
        LET expected == Filtered(BaseAndAffix(_clean_inputs(request)))
        IN  /\ Len(suffixes) = 11 /\ Len(prefixes) = 4
            /\ StrictlyAscending
            /\ GeneratedWords \subseteq expected
            /\ Len(generated) = Min(Cardinality(expected), size_limit)

\* with the four flags false a seed gave all its base forms and affix
\* combinations and none of the words its variations would have added
C7_Witness ==
    /\ Generated
    /\ options = NoOptions
    /\ generated # <<>>
    /\ GeneratedWords = Filtered(BaseAndAffix(_clean_inputs(request)))
    /\ Filtered(_generate_variations(_clean_inputs(request))) \ GeneratedWords # {}

\* C8: for a list generate_wordlist returned that is not empty,
\* get_wordlist_statistics reports as many unique words as words.
C8_TotalEqualsUnique ==
    (pc = "counted" /\ generated # <<>>) => stats.total_words = stats.unique_words

\* a list holding two words that differ in case only was counted
C8_Witness ==
    /\ pc = "counted"
    /\ stats # EmptyDict
    /\ stats.total_words = Len(generated)
    /\ \E v, w \in GeneratedWords : v # w /\ Lower(v) = Lower(w)

-----------------------------------------------------------------------------
(* Properties of the loop of _check_repeated_characters *)

\* where the maximal run of identical characters around position k (from 1)
\* starts
RunStart(pw, k) ==
    CHOOSE j \in 1..k :
        /\ \A m \in j..k : pw[m] = pw[k]
        /\ j = 1 \/ pw[j - 1] # pw[k]

\* the positions that complete a third, sixth, ... character of their run:
\* floor(n/3) of them in a run of n characters
TripleEnds(pw) == {k \in 1..Len(pw) : (k - RunStart(pw, k) + 1) % 3 = 0}

\* one triple per such position, in the order of the positions
ExpectedRepeated(pw) ==
    LET ends == TripleEnds(pw)
        Nth(n) == CHOOSE k \in ends : Cardinality({j \in ends : j <= k}) = n
    IN  [n \in 1..Cardinality(ends) |-> <<pw[Nth(n)], pw[Nth(n)], pw[Nth(n)]>>]

\* C11: the scan of _check_repeated_characters ends for every password; each
\* iteration moves the position forward by 3 and records the triple when the
\* three characters at the position are equal, and by 1 otherwise recording
\* nothing; the list returned holds floor(n/3) triples for every maximal run
\* of n identical characters, in the order of the runs, and is the list
\* analyze_password reports.
C11_RepeatedScan ==
    /\ <>(pc = "returned")
    /\ [][(pc = "scan" /\ pc' = "scan") =>
            IF password[position + 1] = password[position + 2]
               /\ password[position + 2] = password[position + 3]
            THEN /\ position' = position + 3
                 /\ repeated' = Append(repeated,
                                       SubSeq(password, position + 1, position + 3))
            ELSE /\ position' = position + 1
                 /\ repeated' = repeated]_vars
    /\ [](pc = "returned" =>
            /\ repeated = ExpectedRepeated(password)
            /\ repeated = _check_repeated_characters(password))

\* the scan of a password of 7 characters returned two different triples:
\* one of its two runs has 4 characters and gave one triple only
C11_Witness ==
    /\ pc = "returned"
    /\ Len(password) = 7
    /\ Len(repeated) = 2
    /\ repeated[1] # repeated[2]
    /\ \E k \in 1..Len(password) : k - RunStart(password, k) + 1 = 4

-----------------------------------------------------------------------------
(* Properties of the recommendations *)

\* the rules of C12 in their order, each with whether it applies to the
\* password analysed and the message it gives; the character classes and the
\* diversity are taken from the password itself, the findings and the score
\* from the record
RecommendationRules ==
    LET pw == password
        found == analysis.pattern_analysis
        Has(Class(_)) == \E i \in 1..Len(pw) : Class(pw[i])
    IN  << <<Len(pw) < 8, "Use at least 8 characters (12+ recommended)">>,
           <<Len(pw) >= 8 /\ Len(pw) < 12,
             "Consider using 12 or more characters for better security">>,
           <<~Has(IsAsciiLower), "Add lowercase letters">>,
           <<~Has(IsAsciiUpper), "Add uppercase letters">>,
           <<~Has(IsDecimal), "Add numbers">>,
           <<~Has(IsSpecial), "Add special characters (!@#$%^&*)">>,
           <<found.has_common_patterns # <<>>, "Avoid common password patterns">>,
           <<found.has_keyboard_patterns # <<>>,
             "Avoid keyboard patterns (qwerty, 123456, etc.)">>,
           <<found.has_repeated_chars # <<>>, "Avoid repeated characters (aaa, 111)">>,
           <<found.has_sequential_chars # <<>>,
             "Avoid sequential characters (abc, 123)">>,
           <<found.contains_dictionary_words # <<>>, "Avoid common dictionary words">>,
           <<10 * Cardinality(CharSet(pw)) < 7 * Len(pw), "Use more unique characters">>,
           <<analysis.strength_score < 60,
             "Consider using a passphrase instead of a password">>,
           <<analysis.strength_score < 60,
             "Use a password manager to generate strong passwords">>,
           <<analysis.strength_score < 60,
             "Enable two-factor authentication where possible">> >>

\* the messages of the rules that apply, in rule order
ApplicableRecommendations ==
    LET rules == RecommendationRules
        idx == {k \in 1..Len(rules) : rules[k][1]}
        Nth(n) == CHOOSE k \in idx : Cardinality({j \in idx : j <= k}) = n
    IN  [n \in 1..Cardinality(idx) |-> rules[Nth(n)][2]]

\* C12: for a password that is not empty the recommendations are the first 8
\* (all, when there are fewer) of the messages of the rules that apply, in
\* rule order; never more than 8.
C12_FirstEightInRuleOrder ==
    (Returned /\ password # <<>>) =>
        LET all == ApplicableRecommendations
        IN  /\ Len(analysis.recommendations) = Min(8, Len(all))
            /\ Len(analysis.recommendations) <= 8
            /\ \A n \in 1..Len(analysis.recommendations) :
                   analysis.recommendations[n] = all[n]

\* eleven rules or more applied to a password with a finding, and the three
\* tips were cut off
C12_Witness ==
    /\ Returned
    /\ password # <<>>
    /\ Len(ApplicableRecommendations) >= 10
    /\ analysis.pattern_analysis.has_common_patterns # <<>>
    /\ Len(analysis.recommendations) = 8
    /\ analysis.recommendations[8] = "Use more unique characters"

-----------------------------------------------------------------------------
(* Properties of the pattern penalties *)

\* 10 for common patterns, 5 each for keyboard patterns, repeated triples and
\* sequential windows, each counted once when its findings are not empty
Deduction ==
    LET found == analysis.pattern_analysis
    IN    (IF found.has_common_patterns # <<>> THEN 10 ELSE 0)
        + (IF found.has_keyboard_patterns # <<>> THEN 5 ELSE 0)
        + (IF found.has_repeated_chars # <<>> THEN 5 ELSE 0)
        + (IF found.has_sequential_chars # <<>> THEN 5 ELSE 0)

LengthPoints ==
    IF Len(password) >= 12 THEN 30
    ELSE IF Len(password) >= 8 THEN 20
    ELSE IF Len(password) >= 6 THEN 10
    ELSE IF Len(password) >= 4 THEN 5 ELSE 0

EntropyBonus ==
    IF analysis.entropy >= 6000 THEN 20
    ELSE IF analysis.entropy >= 4000 THEN 15
    ELSE IF analysis.entropy >= 2500 THEN 10
    ELSE IF analysis.entropy >= 1500 THEN 5 ELSE 0

CharacterTypes ==
    Cardinality({k \in 1..4 : ClassesPresent(password)[k]})

-----------------------------------------------------------------------------
(* Properties of the leet stage *)

Seeds == _clean_inputs(request)

\* the words accumulated when the leet stage starts: the base forms, and the
\* variation forms when include_variations is set
LeetSnapshot ==
    UNION { {seed, Lower(seed), Upper(seed), Capitalize(seed)} : seed \in Seeds }
    \cup (IF options.include_variations THEN _generate_variations(Seeds) ELSE {})

\* the words of the stages that run after the leet stage
LaterWords ==
    (IF options.include_years THEN _add_year_combinations(Seeds, year_read) ELSE {})
    \cup _add_common_combinations(Seeds)
    \cup (IF options.include_common THEN _add_common_patterns(Seeds) ELSE {})

\* C14: with include_leet set, the words returned are those of the snapshot,
\* the leet words derived from the words of the snapshot, and the words of
\* the later stages, as far as they pass the filter and the limit: none is a
\* leet form of a year, affix or common-pattern word only; and every leet
\* word differs from the word it is derived from.
C14_LeetOfSnapshotOnly ==
    (Generated /\ options.include_leet /\ Seeds # {}) =>
        LET leet == UNION {LeetOf(word) : word \in LeetSnapshot}
            expected == Filtered(LeetSnapshot \cup leet \cup LaterWords)
        IN  /\ \A word \in LeetSnapshot : word \notin LeetOf(word)
            /\ GeneratedWords \subseteq expected
            /\ Cardinality(expected) <= size_limit => GeneratedWords = expected

\* with the leet, variation and year stages on, a leet word that comes from a
\* variation form only was returned, and a year word has a leet form that was
\* not
C14_Witness ==
    /\ Generated
    /\ options.include_leet /\ options.include_variations /\ options.include_years
    /\ \E word \in _generate_variations(Seeds) :
           \E leet \in LeetOf(word) :
               /\ leet \in GeneratedWords
               /\ leet \notin LaterWords
               /\ \A seed \in Seeds : \A base \in BaseForms(seed) : leet \notin LeetOf(base)
    /\ \E word \in Filtered(LaterWords) :
           \E leet \in Filtered(LeetOf(word)) : leet \notin GeneratedWords

-----------------------------------------------------------------------------
(* Properties of the year stage *)

\* the years C15 names: the current, previous and next year with four digits
\* and with two, and the fixed years
ClaimedYears ==
    { Str(year_read), Str(year_read - 1), Str(year_read + 1),
      LastTwo(Str(year_read)), LastTwo(Str(year_read - 1)),
      LastTwo(Str(year_read + 1)) }
    \cup {FixedYears[k] : k \in 1..Len(FixedYears)}

\* C15: with include_years set, for every seed w and every year y among the
\* current, previous and next year in 4 and in 2 digits and the fixed years,
\* the words w+y, y+w, w_y and w-y are added: those that pass the filter are
\* in the list returned, when the limit cut nothing off.
C15_YearCombinations ==
    (/\ Generated
     /\ options.include_years
     /\ Seeds # {}
     /\ Cardinality(Filtered(Unfiltered)) <= size_limit)
    => \A seed \in Seeds : \A y \in ClaimedYears :
           Filtered({ seed \o y, y \o seed,
                      seed \o <<95>> \o y, seed \o <<45>> \o y })
           \subseteq GeneratedWords

-----------------------------------------------------------------------------
(* Properties of the seeds *)

\* the variation forms of a seed other than the abbreviation: reversed; from
\* 3 characters on, all but the first uppercased and the first uppercased;
\* without its vowels, when that is neither empty nor the seed; doubled, up
\* to 6 characters
PlainVariations(seed) ==
    LET consonants == SelectSeq(seed, LAMBDA c : c \notin Vowels)
    IN  {Reverse(seed)}
        \cup (IF Len(seed) >= 3
              THEN { <<seed[1]>> \o Upper(Tail(seed)), <<UpperChar(seed[1])>> \o Tail(seed) }
              ELSE {})
        \cup (IF consonants # <<>> /\ consonants # seed THEN {consonants} ELSE {})
        \cup (IF Len(seed) <= 6 THEN {seed \o seed} ELSE {})

\* C16: every seed has 2 characters or more and no whitespace, comma or
\* semicolon in it; so no seed takes the abbreviation branch of the variation
\* stage, whose words are the other variation forms alone.
C16_SeedsHaveNoSeparator ==
    Generated =>
        \A seed \in Seeds :
            /\ Len(seed) >= 2
            /\ \A i \in 1..Len(seed) : ~IsSpaceChar(seed[i]) /\ seed[i] \notin {44, 59}
            /\ VariationsOf(seed) = PlainVariations(seed)

\* a raw input of two words with a space between them gave two seeds or
\* more, and with the variation stage on the list returned does not hold the
\* words' first letters
C16_Witness ==
    /\ Generated
    /\ options.include_variations
    /\ generated # <<>>
    /\ Cardinality(Seeds) >= 2
    /\ \E n \in 1..Len(request) :
           LET raw == Strip(request[n])
           IN  /\ \E i \in 1..Len(raw) : raw[i] = 32
               /\ \A i \in 1..Len(raw) : raw[i] \notin {44, 59}
               /\ Len(Abbreviation(raw)) >= 2
               /\ Abbreviation(raw) \notin GeneratedWords
               /\ Upper(Abbreviation(raw)) \notin GeneratedWords

=============================================================================
